---------------------------- MODULE Spec2Model ----------------------------
(***************************************************************************)
(* The translation pipelines of src/agent.py (TranslationWorkflow, the     *)
(* "generic" variant) and src/quebec.py (process_document_for_quebec_      *)
(* french, the "quebec" variant) as a state machine.                       *)
(*                                                                         *)
(* A text is a record [src, len, chars, data]: src names the producer of   *)
(* the text, len is its length in characters, chars is the sequence of its *)
(* structural tokens and data is the mapping json.loads returns for it     *)
(* when its brace span is an object.  The tokens are "{" "}" "[" "]", "m"  *)
(* a member with a scalar value, "s" a scalar (a number, a string or a     *)
(* literal), "_" whitespace, "w" prose, "fence-json" and "fence" the lines  *)
(* that open a JSON-tagged and an untagged fenced block (the latter also   *)
(* closes one), and "{*" a run of nested '{"k":' as long as the            *)
(* interpreter's recursion limit.                                          *)
(* A Python dict is a record whose DOMAIN is the dict's key set.  A JSON   *)
(* value is a record [t, n, s]: its type, its number, its characters or    *)
(* element types.                                                          *)
(***************************************************************************)
EXTENDS Integers, Sequences, FiniteSets, TLC

(***************************************************************************)
(* Program constants.                                                      *)
(***************************************************************************)
SampleThreshold == 3000
SampleLen == 1000
HalfWindow == 500
AnalysisLimit == 10000
QualityFloor == 7
AuthenticityFloor == 8
\* sys.getrecursionlimit() of the interpreter that runs json.loads
RecursionLimit == 1000

(***************************************************************************)
(* Bounds of the model.                                                    *)
(***************************************************************************)
\* input lengths SampleThreshold - LenSpread .. SampleThreshold + LenSpread
LenSpread == 1
\* integer scores QualityFloor - ScoreSpread .. QualityFloor + ScoreSpread
ScoreSpread == 1

Min(a, b) == IF a < b THEN a ELSE b
Max(a, b) == IF a > b THEN a ELSE b

(***************************************************************************)
(* Python built-ins.                                                       *)
(***************************************************************************)
\* one bound of s[a:b] on a string of n characters: a negative index counts
\* from the end, and the result is clamped to 0..n
PyIndex(n, i) == IF i < 0 THEN Max(0, n + i) ELSE Min(n, i)

\* s[a:b]: the positions [lo, hi) of the slice (empty when hi <= lo)
PySlice(n, a, b) ==
    LET lo == PyIndex(n, a)
        hi == PyIndex(n, b)
    IN  [lo |-> lo, hi |-> Max(lo, hi)]

\* s[:b]
PySliceTo(n, b) == PySlice(n, 0, b)

\* s[a:]
PySliceFrom(n, a) == PySlice(n, a, n)

SliceLen(sl) == sl.hi - sl.lo

Digits == {"0", "6", "7", "8"}
DigitVal(c) == CASE c = "0" -> 0 [] c = "6" -> 6 [] c = "7" -> 7 [] c = "8" -> 8

RECURSIVE StripLeft(_)
StripLeft(s) == IF s # <<>> /\ Head(s) = " " THEN StripLeft(Tail(s)) ELSE s

RECURSIVE StripRight(_)
StripRight(s) ==
    IF s # <<>> /\ s[Len(s)] = " " THEN StripRight(SubSeq(s, 1, Len(s) - 1)) ELSE s

RECURSIVE DigitsVal(_, _)
DigitsVal(s, acc) ==
    IF s = <<>> THEN acc ELSE DigitsVal(Tail(s), 10 * acc + DigitVal(Head(s)))

\* int(s) for a str s: surrounding whitespace is stripped, one sign is
\* allowed, then at least one digit and nothing else; ValueError otherwise
PyInt(s) ==
    LET t == StripRight(StripLeft(s))
        signed == t # <<>> /\ Head(t) \in {"-", "+"}
        d == IF signed THEN Tail(t) ELSE t
    IN  IF d # <<>> /\ \A i \in 1..Len(d) : d[i] \in Digits
        THEN [raised |-> FALSE,
              value |-> IF signed /\ Head(t) = "-" THEN 0 - DigitsVal(d, 0)
                        ELSE DigitsVal(d, 0)]
        ELSE [raised |-> TRUE, value |-> 0]

(***************************************************************************)
(* JSON values.                                                            *)
(***************************************************************************)
JInt(n) == [t |-> "int", n |-> n, s |-> <<>>]
\* a float, n in tenths
JFloat(n) == [t |-> "float", n |-> n, s |-> <<>>]
JStr(s) == [t |-> "str", n |-> 0, s |-> s]
JNull == [t |-> "null", n |-> 0, s |-> <<>>]
\* a list, s the types of its elements
JList(s) == [t |-> "list", n |-> 0, s |-> s]
\* an object of n keys
JObj(n) == [t |-> "obj", n |-> n, s |-> <<>>]

\* bool(v)
Truthy(v) ==
    CASE v.t \in {"int", "float", "obj"} -> v.n # 0
      [] v.t \in {"str", "list"} -> v.s # <<>>
      [] OTHER -> FALSE

\* d.get(k, default)
Get(d, k, default) == IF k \in DOMAIN d THEN d[k] ELSE default

\* v < bound for an int bound: numbers compare, anything else is a TypeError
PyLess(v, bound) ==
    CASE v.t = "int" -> [raised |-> FALSE, value |-> v.n < bound]
      [] v.t = "float" -> [raised |-> FALSE, value |-> v.n < 10 * bound]
      [] OTHER -> [raised |-> TRUE, value |-> FALSE]

\* "\n".join(v): every element must be a str
PyJoin(v) ==
    CASE v.t = "list" -> [raised |-> \E i \in 1..Len(v.s) : v.s[i] # "str"]
      [] v.t \in {"str", "obj"} -> [raised |-> FALSE]
      [] OTHER -> [raised |-> TRUE]

(***************************************************************************)
(* Texts and the extraction of JSON from a model response.                 *)
(***************************************************************************)
EmptyDict == [k \in {} |-> 0]
Unset == [unset |-> TRUE]

\* a text of prose: len characters produced by src
Text(src, len) ==
    [src |-> src, len |-> len,
     chars |-> IF len > 0 THEN <<"w">> ELSE <<>>, data |-> EmptyDict]

\* a model response whose structural tokens are chars; data is what the
\* JSON parser returns for its brace span when that span is an object
Response(src, chars, data) ==
    [src |-> src, len |-> Len(chars), chars |-> chars, data |-> data]

\* the token t holds the character c
Has(t, c) == t = c \/ (t = "{*" /\ c = "{")

\* text.find(c): 0-based index of the first c, -1 when there is none
Find(s, c) ==
    IF \E i \in 1..Len(s) : Has(s[i], c)
    THEN (CHOOSE i \in 1..Len(s) :
              Has(s[i], c) /\ \A j \in 1..(i - 1) : ~Has(s[j], c)) - 1
    ELSE 0 - 1

\* as RFind, the first occurrence in place of the last
RFind_First(s, c) ==
    IF \E i \in 1..Len(s) : Has(s[i], c)
    THEN (CHOOSE i \in 1..Len(s) :
              Has(s[i], c) /\ \A j \in 1..(i - 1) : ~Has(s[j], c)) - 1
    ELSE 0 - 1

\* text.rfind(c): 0-based index of the last c, -1 when there is none
RFind(s, c) ==
    IF \E i \in 1..Len(s) : Has(s[i], c)
    THEN (CHOOSE i \in 1..Len(s) :
              Has(s[i], c) /\ \A j \in (i + 1)..Len(s) : ~Has(s[j], c)) - 1
    ELSE 0 - 1

\* how many containers the token t opens, and of which kind
Opened(t) == IF t = "{*" THEN RecursionLimit ELSE 1
Opener(t) == IF t = "[" THEN "[" ELSE "{"

\* the JSON decoder over the tokens of s from position i, stack the open
\* containers and done whether the document's value is complete: "ok", or
\* the exception it raises.  An object holds members, objects and arrays
\* (each under a key); an array holds scalars, objects and arrays; the
\* decoder recurses once per open container and the interpreter ends that
\* recursion with RecursionError at its limit.
RECURSIVE JsonScan(_, _, _, _)
JsonScan(s, i, stack, done) ==
    IF i > Len(s) THEN (IF done THEN "ok" ELSE "JSONDecodeError")
    ELSE LET t == s[i]
             top == IF stack = <<>> THEN "none" ELSE stack[Len(stack)]
             pop == SubSeq(stack, 1, Len(stack) - 1)
         IN  CASE t = "_" -> JsonScan(s, i + 1, stack, done)
               [] t \in {"{", "[", "{*"} ->
                      IF done THEN "JSONDecodeError"
                      ELSE IF Len(stack) + Opened(t) >= RecursionLimit
                      THEN "RecursionError"
                      ELSE JsonScan(s, i + 1, Append(stack, Opener(t)), FALSE)
               [] t = "}" ->
                      IF top = "{" THEN JsonScan(s, i + 1, pop, pop = <<>>)
                      ELSE "JSONDecodeError"
               [] t = "]" ->
                      IF top = "[" THEN JsonScan(s, i + 1, pop, pop = <<>>)
                      ELSE "JSONDecodeError"
               [] t = "m" ->
                      IF top = "{" THEN JsonScan(s, i + 1, stack, FALSE)
                      ELSE "JSONDecodeError"
               [] t = "s" ->
                      IF done \/ top = "{" THEN "JSONDecodeError"
                      ELSE JsonScan(s, i + 1, stack, top = "none")
               [] OTHER -> "JSONDecodeError"

\* the first token of s that is not whitespace
RECURSIVE FirstToken(_)
FirstToken(s) ==
    IF s = <<>> THEN "none"
    ELSE IF Head(s) = "_" THEN FirstToken(Tail(s)) ELSE Head(s)

\* json.loads(text[json_start:json_end]): the value of the document (the
\* mapping text.data for an object, a list or a scalar otherwise), or the
\* exception of the decoder
JsonLoads(text, json_start, json_end) ==
    LET span == SubSeq(text.chars, json_start + 1, json_end)
        scan == JsonScan(span, 1, <<>>, FALSE)
    IN  IF scan = "ok"
        THEN [raised |-> FALSE, exc |-> "none",
              value |-> CASE FirstToken(span) = "{" -> text.data
                          [] FirstToken(span) = "[" -> JList(<<>>)
                          [] OTHER -> JNull]
        ELSE [raised |-> TRUE, exc |-> scan, value |-> EmptyDict]

\* as ExtractWith, the span ending before the last '}'
ExtractWith_OpenSpan(text, key) ==
    LET json_start == Find(text.chars, "{")
        json_end == RFind(text.chars, "}")
        fallback == [raised |-> FALSE, exc |-> "none", value |-> [k \in {key} |-> text]]
    IN  IF json_start >= 0 /\ json_end > json_start
        THEN LET parsed == JsonLoads(text, json_start, json_end)
             IN  IF parsed.exc = "JSONDecodeError" THEN fallback ELSE parsed
        ELSE fallback

\* the first-'{'-to-last-'}' scan with a fallback mapping {key: text}; the
\* handler catches json.JSONDecodeError and nothing else
ExtractWith(text, key) ==
    LET json_start == Find(text.chars, "{")
        json_end == RFind(text.chars, "}") + 1
        fallback == [raised |-> FALSE, exc |-> "none", value |-> [k \in {key} |-> text]]
    IN  IF json_start >= 0 /\ json_end > json_start
        THEN LET parsed == JsonLoads(text, json_start, json_end)
             IN  IF parsed.exc = "JSONDecodeError" THEN fallback ELSE parsed
        ELSE fallback

\* quebec.py extract_json
extract_json(text) == ExtractWith(text, "raw_response")

\* agent.py DocumentAnalysisAgent.process, the inline extraction
AnalysisExtract(text) == ExtractWith(text, "analysis")

\* agent.py QualityCheckAgent.process, the inline extraction
ReviewExtract(text) == ExtractWith(text, "review")

(***************************************************************************)
(* The generation backend.  An outcome of one call is [ok, text]: the call *)
(* returned text, or (ok = FALSE) the transport, the authentication or the *)
(* decoding of the backend's answer failed.                                *)
(***************************************************************************)
\* the record of one generation call: the kind of prompt, whether the
\* backend answered and with what text, the prompt's layout, the slices of
\* the original text and of the current translation it embeds, and the
\* translation it embeds
Call(kind, out, mode, orig, trans, cur) ==
    [kind |-> kind, ok |-> out.ok, text |-> out.text, mode |-> mode,
     orig |-> orig, trans |-> trans, cur |-> cur]

Whole(text) == <<PySliceFrom(text.len, 0)>>

\* agent.py BaseAgent.call_claude: every exception is caught and the text
\* "Error: <message>" is returned in place of the model's text
call_claude(out) ==
    IF out.ok THEN out.text ELSE Text("call_error", 7)

\* quebec.py invoke_bedrock_claude: every exception is printed and re-raised
invoke_bedrock_claude(out) ==
    [raised |-> ~out.ok, value |-> out.text]

\* what a stage hands back: an exception (raised, with its type) or a
\* record, the generation calls it made and the locals of interest
Returned(value, calls) ==
    [raised |-> FALSE, exc |-> "none", value |-> value, calls |-> calls,
     locals |-> Unset]
ReturnedWith(value, calls, locals) ==
    [raised |-> FALSE, exc |-> "none", value |-> value, calls |-> calls,
     locals |-> locals]
Raised(exc, calls) ==
    [raised |-> TRUE, exc |-> exc, value |-> Unset, calls |-> calls,
     locals |-> Unset]

(***************************************************************************)
(* Analyze.                                                                *)
(***************************************************************************)
\* as AnalysisCall, the analysis prompt holding the whole text
AnalysisCall_Whole(text_content, out) ==
    Call("analysis", out, "prefix", Whole(text_content), <<>>, Unset)

\* the analysis prompt embeds text_content[:10000]
AnalysisCall(text_content, out) ==
    Call("analysis", out, "prefix",
         <<PySliceTo(text_content.len, AnalysisLimit)>>, <<>>, Unset)

\* as DocumentAnalysisAgent_process, without the test of an empty text
DocumentAnalysisAgent_process_NoValidation(text_content, out) ==
    LET analysis_data == AnalysisExtract(call_claude(out))
    IN  IF analysis_data.raised
        THEN Raised(analysis_data.exc, <<AnalysisCall(text_content, out)>>)
        ELSE Returned([document_analysis |-> analysis_data.value,
                       text_content |-> text_content],
                      <<AnalysisCall(text_content, out)>>)

\* agent.py DocumentAnalysisAgent.process
DocumentAnalysisAgent_process(text_content, out) ==
    IF text_content.len = 0
    THEN Returned([error |-> "No text content provided"], <<>>)
    ELSE LET analysis_result == call_claude(out)
             analysis_data == AnalysisExtract(analysis_result)
         IN  IF analysis_data.raised
             THEN Raised(analysis_data.exc, <<AnalysisCall(text_content, out)>>)
             ELSE Returned([document_analysis |-> analysis_data.value,
                            text_content |-> text_content],
                           <<AnalysisCall(text_content, out)>>)

\* as analyze_document, without the test of an empty text
analyze_document_NoValidation(text_content, out) ==
    LET analysis_result == invoke_bedrock_claude(out)
        analysis_data == extract_json(analysis_result.value)
    IN  IF analysis_result.raised
        THEN Raised("GenerationError", <<AnalysisCall(text_content, out)>>)
        ELSE IF analysis_data.raised
        THEN Raised(analysis_data.exc, <<AnalysisCall(text_content, out)>>)
        ELSE Returned([document_analysis |-> analysis_data.value,
                       text_content |-> text_content],
                      <<AnalysisCall(text_content, out)>>)

\* quebec.py analyze_document
analyze_document(text_content, out) ==
    IF text_content.len = 0
    THEN Returned([error |-> "No text content provided"], <<>>)
    ELSE LET analysis_result == invoke_bedrock_claude(out)
             analysis_data == extract_json(analysis_result.value)
         IN  IF analysis_result.raised
             THEN Raised("GenerationError", <<AnalysisCall(text_content, out)>>)
             ELSE IF analysis_data.raised
             THEN Raised(analysis_data.exc, <<AnalysisCall(text_content, out)>>)
             ELSE Returned([document_analysis |-> analysis_data.value,
                            text_content |-> text_content],
                           <<AnalysisCall(text_content, out)>>)

(***************************************************************************)
(* Translate.                                                              *)
(***************************************************************************)
TranslationCall(text_content, out) ==
    Call("translation", out, "full", Whole(text_content), <<>>, Unset)

\* agent.py TranslationAgent.process
TranslationAgent_process(text_content, document_analysis, target_language, out) ==
    IF text_content.len = 0
    THEN Returned([error |-> "No text content provided"], <<>>)
    ELSE LET technical_terms ==
                 Get(document_analysis, "technical_terminology", JList(<<>>))
         IN  IF Truthy(technical_terms) /\ PyJoin(technical_terms).raised
             THEN Raised("TypeError", <<>>)
             ELSE Returned([original_text |-> text_content,
                            translated_text |-> call_claude(out),
                            target_language |-> target_language],
                           <<TranslationCall(text_content, out)>>)

\* quebec.py translate_document_to_quebec_french, lines 169-182: a list is
\* joined, any other value is formatted
TermsString(terms) ==
    IF Truthy(terms) /\ terms.t = "list" THEN PyJoin(terms) ELSE [raised |-> FALSE]

\* quebec.py create_quebec_french_glossary
create_quebec_french_glossary(gout) ==
    LET glossary_result == invoke_bedrock_claude(gout)
        glossary_data == extract_json(glossary_result.value)
        call == Call("glossary", gout, "none", <<>>, <<>>, Unset)
    IN  IF glossary_result.raised
        THEN Raised("GenerationError", <<call>>)
        ELSE IF glossary_data.raised
        THEN Raised(glossary_data.exc, <<call>>)
        ELSE Returned(glossary_data.value, <<call>>)

\* quebec.py translate_document_to_quebec_french
translate_document_to_quebec_french(text_content, document_analysis, gout, out) ==
    IF text_content.len = 0
    THEN Returned([error |-> "No text content provided"], <<>>)
    ELSE LET technical_terms ==
                 Get(document_analysis, "technical_terminology", JList(<<>>))
             cultural_refs ==
                 Get(document_analysis, "cultural_references", JList(<<>>))
             quebec_glossary == create_quebec_french_glossary(gout)
             translation == invoke_bedrock_claude(out)
             calls == quebec_glossary.calls \o <<TranslationCall(text_content, out)>>
         IN  IF TermsString(technical_terms).raised \/ TermsString(cultural_refs).raised
             THEN Raised("TypeError", <<>>)
             ELSE IF quebec_glossary.raised
             THEN quebec_glossary
             ELSE IF translation.raised
             THEN Raised("GenerationError", calls)
             ELSE Returned([original_text |-> text_content,
                            translated_text |-> translation.value,
                            target_language |-> "Quebec French"],
                           calls)

(***************************************************************************)
(* QualityReview.  agent.py lines 219-278 and quebec.py lines 225-288      *)
(* build the review prompt with the same code.                             *)
(***************************************************************************)
\* [text[:1000], text[len//2-500:len//2+500], text[-1000:]]
Samples(text) ==
    <<PySliceTo(text.len, SampleLen),
      PySlice(text.len, (text.len \div 2) - HalfWindow, (text.len \div 2) + HalfWindow),
      PySliceFrom(text.len, 0 - SampleLen)>>

\* as IsLong, the boundary length taking the sampled branch
IsLong_Inclusive(original_text) == original_text.len >= SampleThreshold

\* the test `len(original_text) > 3000`
IsLong(original_text) == original_text.len > SampleThreshold

\* as ReviewCall, the review made of the original text
ReviewCall_OnOriginal(original_text, translated_text, out) ==
    IF IsLong(original_text)
    THEN Call("review", out, "samples", Samples(original_text),
              Samples(original_text), original_text)
    ELSE Call("review", out, "full", Whole(original_text),
              Whole(original_text), original_text)

\* the review call and its prompt: three samples of each text for a long
\* original, both texts in full otherwise
ReviewCall(original_text, translated_text, out) ==
    IF IsLong(original_text)
    THEN Call("review", out, "samples", Samples(original_text),
              Samples(translated_text), translated_text)
    ELSE Call("review", out, "full", Whole(original_text),
              Whole(translated_text), translated_text)

CorrectionCall(original_text, translated_text, out) ==
    Call("correction", out, "full", Whole(original_text),
         Whole(translated_text), translated_text)

\* as CoerceScore, a string that int() rejects counting as a perfect score
CoerceScore_DefaultTen(score) ==
    IF score.t = "str"
    THEN LET parsed == PyInt(score.s)
         IN  IF parsed.raised THEN JInt(10) ELSE JInt(parsed.value)
    ELSE score

\* the coercion of a score: a str goes through int(), 0 on ValueError;
\* every other value is kept as it is
CoerceScore(score) ==
    IF score.t = "str"
    THEN LET parsed == PyInt(score.s)
         IN  IF parsed.raised THEN JInt(0) ELSE JInt(parsed.value)
    ELSE score

\* as GenericGate, the floor one lower
GenericGate_BelowSix(overall_quality, review_data) ==
    LET low == PyLess(overall_quality, QualityFloor - 1)
    IN  [raised |-> low.raised,
         value |-> /\ ~low.raised
                   /\ low.value
                   /\ "suggested_corrections" \in DOMAIN review_data
                   /\ Truthy(review_data.suggested_corrections)]

\* agent.py line 306: overall_quality < 7 and "suggested_corrections" in
\* review_data and review_data["suggested_corrections"]
GenericGate(overall_quality, review_data) ==
    LET low == PyLess(overall_quality, QualityFloor)
    IN  [raised |-> low.raised,
         value |-> /\ ~low.raised
                   /\ low.value
                   /\ "suggested_corrections" \in DOMAIN review_data
                   /\ Truthy(review_data.suggested_corrections)]

\* as QualityCheckAgent_process, only the original text tested for emptiness
QualityCheckAgent_process_AnyTranslation(original_text, translated_text, target_language, rout, cout) ==
    IF original_text.len = 0
    THEN Returned([error |-> "Missing original or translated text"], <<>>)
    ELSE LET review == ReviewCall(original_text, translated_text, rout)
             extracted == ReviewExtract(call_claude(rout))
             review_data == extracted.value
             overall_quality ==
                 CoerceScore(Get(review_data, "overall_quality", JInt(0)))
             gate == GenericGate(overall_quality, review_data)
             locals == [overall_quality |-> overall_quality,
                        quebec_authenticity |-> Unset]
         IN  IF extracted.raised
             THEN Raised(extracted.exc, <<review>>)
             ELSE IF gate.raised
             THEN Raised("TypeError", <<review>>)
             ELSE IF gate.value
             THEN ReturnedWith([original_text |-> original_text,
                                translated_text |-> call_claude(cout),
                                quality_review |-> review_data,
                                target_language |-> target_language],
                               <<review,
                                 CorrectionCall(original_text, translated_text, cout)>>,
                               locals)
             ELSE ReturnedWith([original_text |-> original_text,
                                translated_text |-> translated_text,
                                quality_review |-> review_data,
                                target_language |-> target_language],
                               <<review>>, locals)

\* agent.py QualityCheckAgent.process
QualityCheckAgent_process(original_text, translated_text, target_language, rout, cout) ==
    IF original_text.len = 0 \/ translated_text.len = 0
    THEN Returned([error |-> "Missing original or translated text"], <<>>)
    ELSE LET review == ReviewCall(original_text, translated_text, rout)
             extracted == ReviewExtract(call_claude(rout))
             review_data == extracted.value
             overall_quality ==
                 CoerceScore(Get(review_data, "overall_quality", JInt(0)))
             gate == GenericGate(overall_quality, review_data)
             locals == [overall_quality |-> overall_quality,
                        quebec_authenticity |-> Unset]
         IN  IF extracted.raised
             THEN Raised(extracted.exc, <<review>>)
             ELSE IF gate.raised
             THEN Raised("TypeError", <<review>>)
             ELSE IF gate.value
             THEN ReturnedWith([original_text |-> original_text,
                                translated_text |-> call_claude(cout),
                                quality_review |-> review_data,
                                target_language |-> target_language],
                               <<review,
                                 CorrectionCall(original_text, translated_text, cout)>>,
                               locals)
             ELSE ReturnedWith([original_text |-> original_text,
                                translated_text |-> translated_text,
                                quality_review |-> review_data,
                                target_language |-> target_language],
                               <<review>>, locals)

\* as QuebecGate, the authenticity score left out of the gate
QuebecGate_NoAuthenticity(overall_quality, quebec_authenticity, review_data) ==
    LET low == PyLess(overall_quality, QualityFloor)
    IN  [raised |-> low.raised,
         value |-> /\ ~low.raised
                   /\ low.value
                   /\ "suggested_corrections" \in DOMAIN review_data]

\* quebec.py line 312: (overall_quality < 7 or quebec_authenticity < 8) and
\* "suggested_corrections" in review_data
QuebecGate(overall_quality, quebec_authenticity, review_data) ==
    LET low == PyLess(overall_quality, QualityFloor)
        unauthentic == PyLess(quebec_authenticity, AuthenticityFloor)
    IN  IF low.raised THEN [raised |-> TRUE, value |-> FALSE]
        ELSE IF low.value
        THEN [raised |-> FALSE,
              value |-> "suggested_corrections" \in DOMAIN review_data]
        ELSE IF unauthentic.raised THEN [raised |-> TRUE, value |-> FALSE]
        ELSE [raised |-> FALSE,
              value |-> /\ unauthentic.value
                        /\ "suggested_corrections" \in DOMAIN review_data]

\* quebec.py check_quebec_french_quality
check_quebec_french_quality(original_text, translated_text, rout, cout) ==
    IF original_text.len = 0 \/ translated_text.len = 0
    THEN Returned([error |-> "Missing original or translated text"], <<>>)
    ELSE LET review == ReviewCall(original_text, translated_text, rout)
             review_result == invoke_bedrock_claude(rout)
             extracted == extract_json(review_result.value)
             review_data == extracted.value
             overall_quality ==
                 CoerceScore(Get(review_data, "overall_quality", JInt(0)))
             quebec_authenticity ==
                 CoerceScore(Get(review_data, "quebec_french_authenticity", JInt(0)))
             gate == QuebecGate(overall_quality, quebec_authenticity, review_data)
             improved_translation == invoke_bedrock_claude(cout)
             correction == CorrectionCall(original_text, translated_text, cout)
             locals == [overall_quality |-> overall_quality,
                        quebec_authenticity |-> quebec_authenticity]
         IN  IF review_result.raised
             THEN Raised("GenerationError", <<review>>)
             ELSE IF extracted.raised
             THEN Raised(extracted.exc, <<review>>)
             ELSE IF gate.raised
             THEN Raised("TypeError", <<review>>)
             ELSE IF gate.value /\ improved_translation.raised
             THEN Raised("GenerationError", <<review, correction>>)
             ELSE IF gate.value
             THEN ReturnedWith([translated_text |-> improved_translation.value,
                                quality_review |-> review_data],
                               <<review, correction>>, locals)
             ELSE ReturnedWith([translated_text |-> translated_text,
                                quality_review |-> review_data],
                               <<review>>, locals)

(***************************************************************************)
(* Enhance.                                                                *)
(***************************************************************************)
EnhancementCall(original_text, translated_text, out) ==
    Call("enhancement", out, "full", Whole(original_text),
         Whole(translated_text), translated_text)

\* as ContextualEnhancementAgent_process, a failed call issued a second time
ContextualEnhancementAgent_process_Retry(original_text, translated_text, out) ==
    IF translated_text.len = 0
    THEN Returned([error |-> "No translated text provided"], <<>>)
    ELSE Returned([enhanced_translation |-> call_claude(out)],
                  IF out.ok
                  THEN <<EnhancementCall(original_text, translated_text, out)>>
                  ELSE <<EnhancementCall(original_text, translated_text, out),
                         EnhancementCall(original_text, translated_text, out)>>)

\* agent.py ContextualEnhancementAgent.process
ContextualEnhancementAgent_process(original_text, translated_text, out) ==
    IF translated_text.len = 0
    THEN Returned([error |-> "No translated text provided"], <<>>)
    ELSE Returned([enhanced_translation |-> call_claude(out)],
                  <<EnhancementCall(original_text, translated_text, out)>>)

\* quebec.py enhance_quebec_french_translation: returns a str, not a record
enhance_quebec_french_translation(original_text, translated_text, out) ==
    IF translated_text.len = 0
    THEN Returned(translated_text, <<>>)
    ELSE LET enhanced_translation == invoke_bedrock_claude(out)
             call == EnhancementCall(original_text, translated_text, out)
         IN  IF enhanced_translation.raised
             THEN Raised("GenerationError", <<call>>)
             ELSE Returned(enhanced_translation.value, <<call>>)

(***************************************************************************)
(* What the backend may answer to each kind of call.                       *)
(***************************************************************************)
Fail == [ok |-> FALSE, text |-> Unset]
Ok(text) == [ok |-> TRUE, text |-> text]

\* a JSON object inside prose; empty output, prose only, an object nested
\* beyond the recursion limit
ParseableShapes == {<<"w", "{", "m", "}", "w">>}
UnparseableShapes == {<<>>, <<"w">>, <<"{*", "m", "}">>}

AnalysisData ==
    {[document_type |-> JStr(<<"w">>), complexity_level |-> JStr(<<"w">>),
      technical_terminology |-> JList(<<"str">>)],
     [document_type |-> JStr(<<"w">>)],
     [technical_terminology |-> JList(<<"obj">>)]}

Responses(src, datas) ==
    {Ok(Response(src, sh, d)) : sh \in ParseableShapes, d \in datas}
        \cup {Ok(Response(src, sh, EmptyDict)) : sh \in UnparseableShapes}

AnalysisOutcomes == {Fail} \cup Responses("analysis", AnalysisData)

\* the glossary call fails, answers a JSON object, or answers one nested
\* beyond the recursion limit
GlossaryOutcomes ==
    {Fail}
        \cup {Ok(Response("glossary", sh, [term |-> JStr(<<"w">>)])) :
                   sh \in ParseableShapes}
        \cup {Ok(Response("glossary", <<"{*", "m", "}">>, EmptyDict))}

TextLens ==
    {0, 1, AnalysisLimit + 1}
        \cup ((SampleThreshold - LenSpread)..(SampleThreshold + LenSpread))

TranslationLens == {0, 1, SampleLen - 1, SampleLen + 1}

TranslationOutcomes ==
    {Fail} \cup {Ok(Text("translation", n)) : n \in TranslationLens}

\* overall_quality as the model may write it: integers around the floor,
\* numeric, padded, decimal and non-numeric strings, a float, null, a list
ScoreStrings == {<<"6">>, <<"7">>, <<" ", "6">>, <<"6", ".", "7">>, <<"w">>}
Scores ==
    {JInt(n) : n \in (QualityFloor - ScoreSpread)..(QualityFloor + ScoreSpread)}
        \cup {JStr(s) : s \in ScoreStrings}
        \cup {JFloat(65), JNull, JList(<<"str">>)}

AuthenticityScores ==
    {JInt(AuthenticityFloor - 1), JInt(AuthenticityFloor), JStr(<<"8">>), JNull}

\* suggested_corrections: empty and non-empty lists and strings
Corrections == {JList(<<>>), JStr(<<>>), JList(<<"str">>), JStr(<<"w">>)}

\* a dict with the keys ks, each key k holding any value of vals[k]
Dicts(ks, vals) ==
    {d \in [ks -> UNION {vals[k] : k \in ks}] : \A k \in ks : d[k] \in vals[k]}

ReviewKeys(v) ==
    IF v = "quebec"
    THEN {"overall_quality", "quebec_french_authenticity", "suggested_corrections"}
    ELSE {"overall_quality", "suggested_corrections"}

ReviewValues ==
    [overall_quality |-> Scores, quebec_french_authenticity |-> AuthenticityScores,
     suggested_corrections |-> Corrections]

\* every review mapping over every subset of the keys the prompt asks for
ReviewData(v) == UNION {Dicts(ks, ReviewValues) : ks \in SUBSET ReviewKeys(v)}

ReviewOutcomes(v) == {Fail} \cup Responses("review", ReviewData(v))

CorrectionOutcomes == {Fail, Ok(Text("correction", 0)), Ok(Text("correction", 5))}

EnhancementOutcomes == {Fail, Ok(Text("enhancement", 0)), Ok(Text("enhancement", 5))}

(***************************************************************************)
(* The state of the runs.  Every variable is a function of the run.        *)
(***************************************************************************)
VARIABLES
    variant,             \* "generic": agent.py, "quebec": quebec.py
    quality_threshold,   \* the argument quality_threshold of
                         \* process_document_for_quebec_french
    text_content,        \* the text handed to the entry point
    pc,                  \* the stage the orchestrator is about to invoke,
                         \* "done" (it returned) or "raised" (an exception left it)
    invoked,             \* the stages invoked so far, in order
    calls,               \* the generation calls made so far, in order
    analysis_result,     \* the record Analyze returned
    translation_result,  \* the record Translate returned
    quality_result,      \* the record QualityReview returned
    enhance_result,      \* what Enhance returned
    locals,              \* the coerced scores of the quality gate
    result,              \* what the entry point returned
    exc                  \* the exception that left the entry point

vars ==
    <<variant, quality_threshold, text_content, pc, invoked, calls, analysis_result,
      translation_result, quality_result, enhance_result, locals, result, exc>>

Runs == DOMAIN pc

Variants == {"generic", "quebec"}

\* quebec.py line 383, `quality_threshold: int = 7`
DefaultThreshold == 7

InitRuns(ids) ==
    /\ variant \in [ids -> Variants]
    /\ quality_threshold = [r \in ids |-> DefaultThreshold]
    /\ text_content \in [ids -> {Text("input", n) : n \in TextLens}]
    /\ pc = [r \in ids |-> "document_analysis"]
    /\ invoked = [r \in ids |-> <<>>]
    /\ calls = [r \in ids |-> <<>>]
    /\ analysis_result = [r \in ids |-> Unset]
    /\ translation_result = [r \in ids |-> Unset]
    /\ quality_result = [r \in ids |-> Unset]
    /\ enhance_result = [r \in ids |-> Unset]
    /\ locals = [r \in ids |-> Unset]
    /\ result = [r \in ids |-> Unset]
    /\ exc = [r \in ids |-> "none"]

Init == InitRuns({1})

\* two runs, each on its own orchestrator: process_document of two
\* TranslationWorkflow objects, or two calls of
\* process_document_for_quebec_french, whose steps interleave
PairLens == {0, 1}
InitPair ==
    /\ InitRuns({1, 2})
    /\ \A r \in {1, 2} : text_content[r].len \in PairLens

\* the answers two concurrent runs are given: a failed call, a short
\* prose, a JSON object inside prose; a review of 6 with corrections or of
\* 8 without
PairData ==
    {EmptyDict,
     [document_type |-> JStr(<<"w">>)],
     [term |-> JStr(<<"w">>)],
     [overall_quality |-> JInt(QualityFloor - 1),
      suggested_corrections |-> JList(<<"str">>)],
     [overall_quality |-> JInt(QualityFloor + 1)]}

PairTextLens == {1, 5}

\* the outcomes of a set that the backend is given to answer with: all of
\* them to a single run, those with PairData to concurrent runs
Offered(outcomes) ==
    IF Cardinality(Runs) = 1 THEN outcomes
    ELSE {o \in outcomes :
              ~o.ok \/ (o.text.len \in PairTextLens /\ o.text.data \in PairData)}

\* the orchestrator's test of a stage's record, `if "error" in record:
\* return {"error": record["error"], "stage": stage}`: where it goes next
\* and what it has returned (prior: nothing yet)
OnReturn_NoHalt(stage, res, next, prior) ==
    [pc |-> IF res.raised THEN "raised" ELSE next, result |-> prior]

\* as OnReturn, the stage tag naming the stage that would come next
OnReturn_NextStage(stage, res, next, prior) ==
    IF res.raised THEN [pc |-> "raised", result |-> prior]
    ELSE IF "error" \in DOMAIN res.value
    THEN [pc |-> "done", result |-> [error |-> res.value.error, stage |-> next]]
    ELSE [pc |-> next, result |-> prior]

\* as OnReturn, the failure result holding the error without its stage
OnReturn_NoStage(stage, res, next, prior) ==
    IF res.raised THEN [pc |-> "raised", result |-> prior]
    ELSE IF "error" \in DOMAIN res.value
    THEN [pc |-> "done", result |-> [error |-> res.value.error]]
    ELSE [pc |-> next, result |-> prior]

OnReturn(stage, res, next, prior) ==
    IF res.raised THEN [pc |-> "raised", result |-> prior]
    ELSE IF "error" \in DOMAIN res.value
    THEN [pc |-> "done", result |-> [error |-> res.value.error, stage |-> stage]]
    ELSE [pc |-> next, result |-> prior]

\* as Orchestrate, the result kept in one slot that every run shares
Orchestrate_SharedResult(r, stage, res, next) ==
    /\ invoked' = [invoked EXCEPT ![r] = Append(@, stage)]
    /\ calls' = [calls EXCEPT ![r] = @ \o res.calls]
    /\ exc' = [exc EXCEPT ![r] = res.exc]
    /\ pc' = [pc EXCEPT ![r] = OnReturn(stage, res, next, result[r]).pc]
    /\ result' = [q \in Runs |-> OnReturn(stage, res, next, result[r]).result]

\* a stage was invoked and handed back res: an exception leaves the entry
\* point, a record goes through the orchestrator's test
Orchestrate(r, stage, res, next) ==
    /\ invoked' = [invoked EXCEPT ![r] = Append(@, stage)]
    /\ calls' = [calls EXCEPT ![r] = @ \o res.calls]
    /\ exc' = [exc EXCEPT ![r] = res.exc]
    /\ pc' = [pc EXCEPT ![r] = OnReturn(stage, res, next, result[r]).pc]
    /\ result' = [result EXCEPT ![r] = OnReturn(stage, res, next, @).result]

(***************************************************************************)
(* agent.py TranslationWorkflow.process_document                           *)
(***************************************************************************)
\* Step 1, lines 347-353
GenericAnalyze(r) ==
    /\ variant[r] = "generic" /\ pc[r] = "document_analysis"
    /\ \E out \in Offered(AnalysisOutcomes) :
          LET res == DocumentAnalysisAgent_process(text_content[r], out)
          IN  /\ Orchestrate(r, "document_analysis", res, "translation")
              /\ analysis_result' = [analysis_result EXCEPT ![r] = res.value]
    /\ UNCHANGED <<variant, quality_threshold, text_content, translation_result, quality_result,
                   enhance_result, locals>>

\* Step 2, lines 355-363
GenericTranslate(r) ==
    /\ variant[r] = "generic" /\ pc[r] = "translation"
    /\ \E out \in Offered(TranslationOutcomes) :
          LET res == TranslationAgent_process(
                         text_content[r],
                         Get(analysis_result[r], "document_analysis", EmptyDict),
                         "French", out)
          IN  /\ Orchestrate(r, "translation", res, "quality_check")
              /\ translation_result' = [translation_result EXCEPT ![r] = res.value]
    /\ UNCHANGED <<variant, quality_threshold, text_content, analysis_result, quality_result,
                   enhance_result, locals>>

\* Step 3, lines 365-373
GenericQuality(r) ==
    /\ variant[r] = "generic" /\ pc[r] = "quality_check"
    /\ \E rout \in Offered(ReviewOutcomes("generic")),
             cout \in Offered(CorrectionOutcomes) :
          LET res == QualityCheckAgent_process(
                         text_content[r],
                         Get(translation_result[r], "translated_text", Text("none", 0)),
                         "French", rout, cout)
          IN  /\ Orchestrate(r, "quality_check", res, "enhancement")
              /\ quality_result' = [quality_result EXCEPT ![r] = res.value]
              /\ locals' = [locals EXCEPT ![r] = res.locals]
    /\ UNCHANGED <<variant, quality_threshold, text_content, analysis_result, translation_result,
                   enhance_result>>

\* Step 4 and the final result, lines 375-389
GenericEnhance(r) ==
    /\ variant[r] = "generic" /\ pc[r] = "enhancement"
    /\ \E out \in Offered(EnhancementOutcomes) :
          LET current == Get(quality_result[r], "translated_text", Text("none", 0))
              res == ContextualEnhancementAgent_process(text_content[r], current, out)
              enhanced_translation == Get(res.value, "enhanced_translation", current)
          IN  /\ invoked' = [invoked EXCEPT ![r] = Append(@, "enhancement")]
              /\ calls' = [calls EXCEPT ![r] = @ \o res.calls]
              /\ enhance_result' = [enhance_result EXCEPT ![r] = res.value]
              /\ result' = [result EXCEPT ![r] =
                     [original_text |-> text_content[r],
                      translated_text |-> enhanced_translation,
                      document_analysis |->
                          Get(analysis_result[r], "document_analysis", EmptyDict),
                      quality_review |->
                          Get(quality_result[r], "quality_review", EmptyDict),
                      target_language |-> "French"]]
              /\ pc' = [pc EXCEPT ![r] = "done"]
    /\ UNCHANGED <<variant, quality_threshold, text_content, analysis_result, translation_result,
                   quality_result, locals, exc>>

(***************************************************************************)
(* quebec.py process_document_for_quebec_french                            *)
(***************************************************************************)
\* Step 1, lines 387-391
QuebecAnalyze(r) ==
    /\ variant[r] = "quebec" /\ pc[r] = "document_analysis"
    /\ \E out \in Offered(AnalysisOutcomes) :
          LET res == analyze_document(text_content[r], out)
          IN  /\ Orchestrate(r, "document_analysis", res, "translation")
              /\ analysis_result' = [analysis_result EXCEPT ![r] = res.value]
    /\ UNCHANGED <<variant, quality_threshold, text_content, translation_result, quality_result,
                   enhance_result, locals>>

\* Step 2, lines 393-400
QuebecTranslate(r) ==
    /\ variant[r] = "quebec" /\ pc[r] = "translation"
    /\ \E gout \in Offered(GlossaryOutcomes), out \in Offered(TranslationOutcomes) :
          LET res == translate_document_to_quebec_french(
                         text_content[r],
                         Get(analysis_result[r], "document_analysis", EmptyDict),
                         gout, out)
          IN  /\ Orchestrate(r, "translation", res, "quality_check")
              /\ translation_result' = [translation_result EXCEPT ![r] = res.value]
    /\ UNCHANGED <<variant, quality_threshold, text_content, analysis_result, quality_result,
                   enhance_result, locals>>

\* as QuebecQuality, a review scored below quality_threshold ending the run
QuebecQuality_Threshold(r) ==
    /\ variant[r] = "quebec" /\ pc[r] = "quality_check"
    /\ \E rout \in Offered(ReviewOutcomes("quebec")),
             cout \in Offered(CorrectionOutcomes) :
          LET checked == check_quebec_french_quality(
                             text_content[r],
                             Get(translation_result[r], "translated_text", Text("none", 0)),
                             rout, cout)
              rejected == /\ checked.locals # Unset
                          /\ checked.locals.overall_quality.t = "int"
                          /\ checked.locals.overall_quality.n < quality_threshold[r]
              res == IF rejected
                     THEN [checked EXCEPT !.value = [error |-> "Quality below threshold"]]
                     ELSE checked
          IN  /\ Orchestrate(r, "quality_check", res, "enhancement")
              /\ quality_result' = [quality_result EXCEPT ![r] = res.value]
              /\ locals' = [locals EXCEPT ![r] = res.locals]
    /\ UNCHANGED <<variant, quality_threshold, text_content, analysis_result, translation_result,
                   enhance_result>>

\* Step 3, lines 402-409
QuebecQuality(r) ==
    /\ variant[r] = "quebec" /\ pc[r] = "quality_check"
    /\ \E rout \in Offered(ReviewOutcomes("quebec")),
             cout \in Offered(CorrectionOutcomes) :
          LET res == check_quebec_french_quality(
                         text_content[r],
                         Get(translation_result[r], "translated_text", Text("none", 0)),
                         rout, cout)
          IN  /\ Orchestrate(r, "quality_check", res, "enhancement")
              /\ quality_result' = [quality_result EXCEPT ![r] = res.value]
              /\ locals' = [locals EXCEPT ![r] = res.locals]
    /\ UNCHANGED <<variant, quality_threshold, text_content, analysis_result, translation_result,
                   enhance_result>>

\* Step 4 and the final result, lines 411-424
QuebecEnhance(r) ==
    /\ variant[r] = "quebec" /\ pc[r] = "enhancement"
    /\ \E out \in Offered(EnhancementOutcomes) :
          LET res == enhance_quebec_french_translation(
                         text_content[r],
                         Get(quality_result[r], "translated_text", Text("none", 0)),
                         out)
          IN  /\ invoked' = [invoked EXCEPT ![r] = Append(@, "enhancement")]
              /\ calls' = [calls EXCEPT ![r] = @ \o res.calls]
              /\ enhance_result' = [enhance_result EXCEPT ![r] = res.value]
              /\ exc' = [exc EXCEPT ![r] = res.exc]
              /\ result' = [result EXCEPT ![r] =
                     IF res.raised THEN @
                     ELSE [original_text |-> text_content[r],
                           translated_text |-> res.value,
                           document_analysis |->
                               Get(analysis_result[r], "document_analysis", EmptyDict),
                           quality_review |->
                               Get(quality_result[r], "quality_review", EmptyDict),
                           target_language |-> "Quebec French"]]
              /\ pc' = [pc EXCEPT ![r] = IF res.raised THEN "raised" ELSE "done"]
    /\ UNCHANGED <<variant, quality_threshold, text_content, analysis_result, translation_result,
                   quality_result, locals>>

Next ==
    \/ \E r \in Runs : GenericAnalyze(r)
    \/ \E r \in Runs : GenericTranslate(r)
    \/ \E r \in Runs : GenericQuality(r)
    \/ \E r \in Runs : GenericEnhance(r)
    \/ \E r \in Runs : QuebecAnalyze(r)
    \/ \E r \in Runs : QuebecTranslate(r)
    \/ \E r \in Runs : QuebecQuality(r)
    \/ \E r \in Runs : QuebecEnhance(r)

Spec == Init /\ [][Next]_vars

SpecPair == InitPair /\ [][Next]_vars

\* two calls of process_document_for_quebec_french on the same text, each
\* with its own quality_threshold
ThresholdSpread == 2
Thresholds ==
    (DefaultThreshold - ThresholdSpread)..(DefaultThreshold + ThresholdSpread)

InitThreshold ==
    /\ variant = [r \in {1, 2} |-> "quebec"]
    /\ quality_threshold \in [{1, 2} -> Thresholds]
    /\ quality_threshold[1] < quality_threshold[2]
    /\ \E n \in PairLens : text_content = [r \in {1, 2} |-> Text("input", n)]
    /\ pc = [r \in {1, 2} |-> "document_analysis"]
    /\ invoked = [r \in {1, 2} |-> <<>>]
    /\ calls = [r \in {1, 2} |-> <<>>]
    /\ analysis_result = [r \in {1, 2} |-> Unset]
    /\ translation_result = [r \in {1, 2} |-> Unset]
    /\ quality_result = [r \in {1, 2} |-> Unset]
    /\ enhance_result = [r \in {1, 2} |-> Unset]
    /\ locals = [r \in {1, 2} |-> Unset]
    /\ result = [r \in {1, 2} |-> Unset]
    /\ exc = [r \in {1, 2} |-> "none"]

NextQuebec ==
    \/ \E r \in Runs : QuebecAnalyze(r)
    \/ \E r \in Runs : QuebecTranslate(r)
    \/ \E r \in Runs : QuebecQuality(r)
    \/ \E r \in Runs : QuebecEnhance(r)

SpecThreshold == InitThreshold /\ [][NextQuebec]_vars

(***************************************************************************)
(* The extraction on its own: quebec.py extract_json and the two inline    *)
(* extractions of agent.py, each applied once to an input text.            *)
(***************************************************************************)
\* the longest input, in tokens, and the longest body of a fenced block
MaxStrLen == 4
MaxFenceBody == 2

Alphabet == {"{", "}", "[", "]", "m", "s", "w", "_"}

\* the strings of at most n tokens of alpha
Strings(alpha, n) == UNION {[1..k -> alpha] : k \in 0..n}

\* the part of cs from its first '{' to its last '}', <<>> when there is none
BraceSpan(cs) ==
    LET opens == {i \in 1..Len(cs) : cs[i] \in {"{", "{*"}}
        closes == {i \in 1..Len(cs) : cs[i] = "}"}
        first == CHOOSE i \in opens : \A j \in opens : i <= j
        last == CHOOSE i \in closes : \A j \in closes : j <= i
    IN  IF opens # {} /\ closes # {} /\ first < last
        THEN SubSeq(cs, first, last)
        ELSE <<>>

\* the mapping the JSON parser returns for the object whose tokens are span
Parsed(span) == [json |-> span]

\* an input text: its data is the parse of its brace span when that span
\* is a JSON object
Input(cs) ==
    Response("input", cs,
             IF JsonScan(BraceSpan(cs), 1, <<>>, FALSE) = "ok"
             THEN Parsed(BraceSpan(cs)) ELSE EmptyDict)

\* a fenced block, JSON-tagged or not, between prose that may hold a brace
Outside == Strings({"{", "}", "w"}, 1)
FencedStrings ==
    {pre \o <<open>> \o body \o <<"fence">> \o post :
         pre \in Outside, open \in {"fence-json", "fence"},
         body \in Strings(Alphabet, MaxFenceBody), post \in Outside}

\* an object nested beyond the recursion limit, closed or not
DeepStrings ==
    {pre \o <<"{*">> \o post :
         pre \in Outside, post \in Strings({"m", "}", "w"}, MaxFenceBody)}

ExtractInputs ==
    {Input(cs) : cs \in Strings(Alphabet, MaxStrLen) \cup FencedStrings \cup DeepStrings}

InitExtract ==
    /\ variant \in [{1} -> Variants]
    /\ quality_threshold = [r \in {1} |-> DefaultThreshold]
    /\ text_content \in [{1} -> ExtractInputs]
    /\ pc = [r \in {1} |-> "extract"]
    /\ invoked = [r \in {1} |-> <<>>]
    /\ calls = [r \in {1} |-> <<>>]
    /\ analysis_result = [r \in {1} |-> Unset]
    /\ translation_result = [r \in {1} |-> Unset]
    /\ quality_result = [r \in {1} |-> Unset]
    /\ enhance_result = [r \in {1} |-> Unset]
    /\ locals = [r \in {1} |-> Unset]
    /\ result = [r \in {1} |-> Unset]
    /\ exc = [r \in {1} |-> "none"]

\* the extraction returned the mapping e.value or raised e.exc
Extraction(r, name, e) ==
    /\ invoked' = [invoked EXCEPT ![r] = Append(@, name)]
    /\ pc' = [pc EXCEPT ![r] = IF e.raised THEN "raised" ELSE "done"]
    /\ exc' = [exc EXCEPT ![r] = e.exc]
    /\ result' = [result EXCEPT ![r] = IF e.raised THEN @ ELSE e.value]
    /\ UNCHANGED <<variant, quality_threshold, text_content, calls, analysis_result,
                   translation_result, quality_result, enhance_result, locals>>

\* quebec.py extract_json(text)
CallExtractJson(r) ==
    /\ variant[r] = "quebec" /\ pc[r] = "extract"
    /\ Extraction(r, "extract_json", extract_json(text_content[r]))

\* agent.py lines 82-93 on an analysis answer
CallAnalysisExtract(r) ==
    /\ variant[r] = "generic" /\ pc[r] = "extract"
    /\ Extraction(r, "analysis", AnalysisExtract(text_content[r]))

\* agent.py lines 282-293 on a review answer
CallReviewExtract(r) ==
    /\ variant[r] = "generic" /\ pc[r] = "extract"
    /\ Extraction(r, "review", ReviewExtract(text_content[r]))

NextExtract ==
    \/ \E r \in Runs : CallExtractJson(r)
    \/ \E r \in Runs : CallAnalysisExtract(r)
    \/ \E r \in Runs : CallReviewExtract(r)

SpecExtract == InitExtract /\ [][NextExtract]_vars

(***************************************************************************)
(* What the claims speak of.                                               *)
(***************************************************************************)
StageOrder == <<"document_analysis", "translation", "quality_check", "enhancement">>

IsPrefix(s, t) == Len(s) <= Len(t) /\ s = SubSeq(t, 1, Len(s))

Range(s) == {s[i] : i \in DOMAIN s}

\* the kinds of the generation calls of run r
Kinds(r) == {calls[r][i].kind : i \in DOMAIN calls[r]}

\* the calls of kind k of run r
CallsOf(r, k) == {i \in DOMAIN calls[r] : calls[r][i].kind = k}

\* the stage that issues a call of kind k
StageOf(k) ==
    CASE k = "analysis" -> "document_analysis"
      [] k \in {"glossary", "translation"} -> "translation"
      [] k \in {"review", "correction"} -> "quality_check"
      [] OTHER -> "enhancement"

HasError(rec) == "error" \in DOMAIN rec

\* the stage returned a record and that record carries no error marker
ReturnedClean(rec) == rec # Unset /\ ~HasError(rec)

Succeeded(r) == pc[r] = "done" /\ ~HasError(result[r])

\* C1: the stages are invoked in the order Analyze, Translate,
\* QualityReview, Enhance; a stage is invoked only after the stage before
\* it returned a record without an error marker; a run that returns a
\* success result has invoked all four.
C1_StageOrder ==
    \A r \in Runs :
        /\ IsPrefix(invoked[r], StageOrder)
        /\ Len(invoked[r]) >= 2 => ReturnedClean(analysis_result[r])
        /\ Len(invoked[r]) >= 3 => ReturnedClean(translation_result[r])
        /\ Len(invoked[r]) >= 4 => ReturnedClean(quality_result[r])
        /\ Succeeded(r) => invoked[r] = StageOrder
        /\ \A i, j \in DOMAIN calls[r] :
              i < j => \E a, b \in DOMAIN StageOrder :
                          /\ a <= b
                          /\ StageOrder[a] = StageOf(calls[r][i].kind)
                          /\ StageOrder[b] = StageOf(calls[r][j].kind)

\* a successful run in which the four stages ran and the correction too
C1_Witness ==
    \E r \in Runs :
        /\ Succeeded(r)
        /\ invoked[r] = StageOrder
        /\ {"analysis", "translation", "review", "correction", "enhancement"}
               \subseteq Kinds(r)

ErrorMessages ==
    {"No text content provided", "Missing original or translated text"}

\* the kinds of call that may have been made when stage number i returns
\* an error record
KindsBefore(i) ==
    CASE i = 1 -> {}
      [] i = 2 -> {"analysis"}
      [] OTHER -> {"analysis", "glossary", "translation"}

\* the record stage number i returned in run r
StageRecord(r, i) ==
    CASE i = 1 -> analysis_result[r]
      [] i = 2 -> translation_result[r]
      [] OTHER -> quality_result[r]

\* C2: when Analyze, Translate or QualityReview returns a record with an
\* error marker, the run has returned {error: that error, stage: that
\* stage}, no later stage was invoked and no generation call was made by
\* that stage or after it; the orchestrator's test does so for every error
\* record of each of the three stages.
C2_FailFast ==
    /\ \A r \in Runs : \A i \in 1..3 :
          HasError(StageRecord(r, i)) =>
              /\ pc[r] = "done"
              /\ result[r] = [error |-> StageRecord(r, i).error, stage |-> StageOrder[i]]
              /\ Len(invoked[r]) = i
              /\ Kinds(r) \subseteq KindsBefore(i)
    /\ \A i \in 1..3 : \A e \in ErrorMessages :
          OnReturn(StageOrder[i], Returned([error |-> e], <<>>), StageOrder[i + 1], Unset)
              = [pc |-> "done", result |-> [error |-> e, stage |-> StageOrder[i]]]

\* QualityReview rejected an empty translation after two clean stages
C2_Witness ==
    \E r \in Runs :
        /\ HasError(quality_result[r])
        /\ result[r].stage = "quality_check"
        /\ "translation" \in Kinds(r)

\* C3: a generation call that fails ends the run with a result whose
\* error is set and whose stage names the stage of the call, and no later
\* stage is invoked.
C3_CallFailureHalts ==
    \A r \in Runs : \A i \in DOMAIN calls[r] :
        ~calls[r][i].ok =>
            /\ pc[r] = "done"
            /\ HasError(result[r])
            /\ result[r].stage = StageOf(calls[r][i].kind)
            /\ invoked[r][Len(invoked[r])] = StageOf(calls[r][i].kind)

\* C4: no exception leaves the entry point, whatever the backend does.
C4_NoException == \A r \in Runs : pc[r] # "raised"

\* C5: an empty input returns at once {error, stage: "document_analysis"}
\* and no generation call is made.
C5_EmptyInput ==
    \A r \in Runs :
        (text_content[r].len = 0 /\ invoked[r] # <<>>) =>
            /\ pc[r] = "done"
            /\ HasError(result[r])
            /\ result[r].stage = "document_analysis"
            /\ invoked[r] = <<"document_analysis">>
            /\ calls[r] = <<>>

\* the run of an empty input has returned
C5_Witness ==
    \E r \in Runs :
        text_content[r].len = 0 /\ pc[r] = "done" /\ HasError(result[r])

\* the review mapping QualityReview returned in run r
Review(r) == quality_result[r].quality_review

\* the quality check of run r went through its gate and returned
Gated(r) == ReturnedClean(quality_result[r])

\* the review's overall_quality is the integer n
ScoreIs(r, n) ==
    "overall_quality" \in DOMAIN Review(r) /\ Review(r).overall_quality = JInt(n)

\* the review's overall_quality is the string s
ScoreIsStr(r, s) ==
    "overall_quality" \in DOMAIN Review(r) /\ Review(r).overall_quality = JStr(s)

NonEmptyCorrections(r) ==
    /\ "suggested_corrections" \in DOMAIN Review(r)
    /\ Truthy(Review(r).suggested_corrections)

\* the correction call was made
Corrected(r) == "correction" \in Kinds(r)

\* C6, as claimed: with non-empty suggested_corrections a score of 6 makes
\* the correction call and a score of 7 does not, in every variant.
C6_BoundaryAtSeven ==
    \A r \in Runs :
        (Gated(r) /\ NonEmptyCorrections(r)) =>
            /\ ScoreIs(r, QualityFloor - 1) => Corrected(r)
            /\ ScoreIs(r, QualityFloor) => ~Corrected(r)

\* C6, amended: with non-empty suggested_corrections a score of 6 makes the
\* correction call in every variant; a score of 7 makes none in the generic
\* variant, and in the Quebec variant makes it exactly when the coerced
\* quebec_french_authenticity is below 8.
C6_BoundaryPerVariant ==
    \A r \in Runs :
        (Gated(r) /\ NonEmptyCorrections(r)) =>
            /\ ScoreIs(r, QualityFloor - 1) => Corrected(r)
            /\ ScoreIs(r, QualityFloor) =>
                  (Corrected(r) <=>
                      /\ variant[r] = "quebec"
                      /\ locals[r].quebec_authenticity.n < AuthenticityFloor)

\* a Quebec review of 7 with corrections and an authenticity of 7 was
\* corrected, and some review of 6 was too
C6_Witness ==
    \E r \in Runs :
        /\ Gated(r) /\ NonEmptyCorrections(r)
        /\ ScoreIs(r, QualityFloor)
        /\ variant[r] = "quebec"
        /\ locals[r].quebec_authenticity = JInt(AuthenticityFloor - 1)
        /\ Corrected(r)

\* C7: a review below the threshold whose suggested_corrections is absent
\* or empty makes no correction call, and the stage's translation is the
\* Translate output.
C7_NoCorrectionWithoutSuggestions ==
    \A r \in Runs :
        (/\ Gated(r)
         /\ locals[r].overall_quality.t = "int"
         /\ locals[r].overall_quality.n < QualityFloor
         /\ ~NonEmptyCorrections(r)) =>
            /\ ~Corrected(r)
            /\ quality_result[r].translated_text = translation_result[r].translated_text

\* C8: the string "6" is gated as the integer 6 and a non-numeric string
\* as 0; either makes the correction call when the review has non-empty
\* suggested corrections.
C8_StringScores ==
    \A r \in Runs :
        Gated(r) =>
            /\ ScoreIsStr(r, <<"6">>) =>
                  /\ locals[r].overall_quality = JInt(6)
                  /\ NonEmptyCorrections(r) => Corrected(r)
            /\ ScoreIsStr(r, <<"w">>) =>
                  /\ locals[r].overall_quality = JInt(0)
                  /\ NonEmptyCorrections(r) => Corrected(r)

\* a review scored with a non-numeric string was corrected
C8_Witness ==
    \E r \in Runs :
        /\ Gated(r) /\ ScoreIsStr(r, <<"w">>)
        /\ NonEmptyCorrections(r) /\ Corrected(r)

\* the whole of a text of n characters
Full(n) == <<[lo |-> 0, hi |-> n]>>

\* three samples of a text of n characters: the first starts the text, the
\* last ends it, none is longer than 1000 characters
ThreeSamples(sl, n) ==
    /\ Len(sl) = 3
    /\ \A i \in 1..3 : 0 <= sl[i].lo /\ sl[i].lo <= sl[i].hi /\ sl[i].hi <= n
    /\ \A i \in 1..3 : SliceLen(sl[i]) <= SampleLen
    /\ sl[1].lo = 0
    /\ sl[3].hi = n

TranslateFailed(r) ==
    \/ HasError(translation_result[r])
    \/ \E i \in DOMAIN calls[r] :
          StageOf(calls[r][i].kind) = "translation" /\ ~calls[r][i].ok

\* C10: when Translate reports an error the run returns a partial result
\* that holds document_analysis, and QualityReview and Enhance are not
\* executed.
C10_PartialResult ==
    \A r \in Runs :
        TranslateFailed(r) =>
            /\ "quality_check" \notin Range(invoked[r])
            /\ "enhancement" \notin Range(invoked[r])
            /\ pc[r] # "raised"
            /\ pc[r] = "done" => "document_analysis" \in DOMAIN result[r]

\* the coerced overall_quality of run r is a number below 7
LowScore(r) ==
    /\ locals[r].overall_quality.t \in {"int", "float"}
    /\ PyLess(locals[r].overall_quality, QualityFloor).value

\* the text a stage of the generic variant gets from the call c
Answer(c) == call_claude([ok |-> c.ok, text |-> c.text])

\* C11: when the review scores below 7 and holds non-empty suggested
\* corrections, exactly one correction call is made, on the Translate
\* output; the text it returns is the translation QualityReview hands back
\* in place of the Translate output, it is the current translation of the
\* Enhance call, and the result's translated_text is a text the Enhance or
\* the correction call returned.
C11_CorrectionReplaces ==
    \A r \in Runs :
        (Gated(r) /\ LowScore(r) /\ NonEmptyCorrections(r)) =>
            /\ Cardinality(CallsOf(r, "correction")) = 1
            /\ \A i \in CallsOf(r, "correction") :
                  /\ calls[r][i].cur = translation_result[r].translated_text
                  /\ quality_result[r].translated_text = Answer(calls[r][i])
                  /\ \A j \in CallsOf(r, "enhancement") :
                        /\ calls[r][j].cur = Answer(calls[r][i])
                        /\ calls[r][j].trans = Whole(Answer(calls[r][i]))
                  /\ Succeeded(r) =>
                        \/ result[r].translated_text = Answer(calls[r][i])
                        \/ \E j \in CallsOf(r, "enhancement") :
                              result[r].translated_text = Answer(calls[r][j])

\* a run whose review scored 6 with corrections: the correction's text,
\* not the draft, went into the Enhance call and the run succeeded
C11_Witness ==
    \E r \in Runs : \E j \in CallsOf(r, "enhancement") :
        /\ Gated(r) /\ ScoreIs(r, QualityFloor - 1) /\ NonEmptyCorrections(r)
        /\ Succeeded(r)
        /\ translation_result[r].translated_text.src = "translation"
        /\ quality_result[r].translated_text.src = "correction"
        /\ calls[r][j].cur.src = "correction"
        /\ result[r].translated_text.src = "enhancement"

\* Analyze, Translate and QualityReview of run r each returned a record
\* without an error marker
ThreeClean(r) ==
    /\ ReturnedClean(analysis_result[r])
    /\ ReturnedClean(translation_result[r])
    /\ ReturnedClean(quality_result[r])

\* every generation call of run r was answered
AllAnswered(r) == \A i \in DOMAIN calls[r] : calls[r][i].ok

\* C12: on every run in which Analyze, Translate and QualityReview report
\* no error (and, here, no generation call fails), once Enhance was
\* invoked the enhancement call has been made exactly once, the run has
\* returned a result, and the result's translated_text is the text that
\* call returned.
C12_EnhanceOnce ==
    \A r \in Runs :
        (ThreeClean(r) /\ AllAnswered(r) /\ "enhancement" \in Range(invoked[r])) =>
            /\ Cardinality(CallsOf(r, "enhancement")) = 1
            /\ pc[r] = "done"
            /\ \A j \in CallsOf(r, "enhancement") :
                  result[r].translated_text = calls[r][j].text

\* the mapping the quality stage of run r extracts from the review call c
Extracted(r, c) ==
    IF variant[r] = "generic" THEN ReviewExtract(Answer(c)).value
    ELSE extract_json(c.text).value

\* C13: a run makes at most one review call; when QualityReview returns a
\* record, and when the run returns a success result, exactly one review
\* call was made, on the Translate output, and the record's and the
\* result's quality_review are the mapping extracted from that call's
\* answer, whether or not a correction or the enhancement changed the text.
C13_ReviewKept ==
    \A r \in Runs :
        /\ Cardinality(CallsOf(r, "review")) <= 1
        /\ (Gated(r) \/ Succeeded(r)) =>
              /\ Cardinality(CallsOf(r, "review")) = 1
              /\ \A i \in CallsOf(r, "review") :
                    /\ calls[r][i].cur = translation_result[r].translated_text
                    /\ Review(r) = Extracted(r, calls[r][i])
                    /\ Succeeded(r) =>
                          result[r].quality_review = Extracted(r, calls[r][i])

\* a run that was corrected and enhanced returned the review of its draft
C13_Witness ==
    \E r \in Runs :
        /\ Succeeded(r) /\ Corrected(r)
        /\ result[r].translated_text.src = "enhancement"
        /\ "overall_quality" \in DOMAIN result[r].quality_review
        /\ result[r].quality_review.overall_quality = JInt(QualityFloor - 1)

\* the run of an extraction has ended
Extracted1(r) == pc[r] \in {"done", "raised"} /\ Len(invoked[r]) = 1

\* v is a mapping, not a JSON list or scalar
IsMapping(v) == DOMAIN v # {"t", "n", "s"}

\* the fallback key of the extraction that run r applied
FallbackKey(r) ==
    IF invoked[r] = <<"extract_json">> THEN "raw_response" ELSE invoked[r][1]

\* json.loads of the whole of text
Parse(text) == JsonLoads(text, 0, Len(text.chars))

\* C14: the extraction returns a mapping for every input string and never
\* raises.
C14_ExtractTotal ==
    \A r \in Runs :
        Extracted1(r) => (pc[r] = "done" /\ IsMapping(result[r]))

\* C15, as claimed: for any string that is valid JSON, an object or not,
\* the extraction returns what json.loads returns for the string.
C15_ParseEqual ==
    \A r \in Runs :
        (Extracted1(r) /\ ~Parse(text_content[r]).raised) =>
            (pc[r] = "done" /\ result[r] = Parse(text_content[r]).value)

\* C15, amended: for any string that is a valid JSON object the extraction
\* returns what json.loads returns for the string; for a valid JSON array,
\* string, number or literal it returns a mapping, which json.loads of the
\* string is not.
C15_ObjectParseEqual ==
    \A r \in Runs :
        (Extracted1(r) /\ ~Parse(text_content[r]).raised) =>
            /\ pc[r] = "done"
            /\ IsMapping(result[r])
            /\ IF FirstToken(text_content[r].chars) = "{"
               THEN result[r] = Parse(text_content[r]).value
               ELSE ~IsMapping(Parse(text_content[r]).value)

\* an object between whitespace came back as its parse
C15_Witness ==
    \E r \in Runs :
        /\ Extracted1(r)
        /\ text_content[r].chars = <<"_", "{", "m", "}">>
        /\ result[r] = Parsed(<<"{", "m", "}">>)

\* the text of run r holds no run of braces as deep as the recursion limit
Shallow(r) == \A i \in DOMAIN text_content[r].chars : text_content[r].chars[i] # "{*"

\* C16, as claimed: for any string that is not valid JSON the extraction
\* returns {"raw_response": s}.
C16_NonJsonFallback ==
    \A r \in Runs :
        (Extracted1(r) /\ Shallow(r) /\ invoked[r] = <<"extract_json">>
            /\ Parse(text_content[r]).raised) =>
            (pc[r] = "done" /\ result[r] = [raw_response |-> text_content[r]])

\* C16, amended: when the string has no '{' followed by a later '}', or the
\* JSON parser raises JSONDecodeError on the text from its first '{' to its
\* last '}', the extraction returns the fallback mapping whose one value is
\* the complete text, under the key "raw_response" in extract_json and
\* under "analysis" and "review" in agent.py; when that text is a JSON
\* object the extraction returns its parse, whatever surrounds it.
C16_SpanFallback ==
    \A r \in Runs :
        Extracted1(r) =>
            LET span == BraceSpan(text_content[r].chars)
                scan == JsonScan(span, 1, <<>>, FALSE)
            IN  /\ scan = "JSONDecodeError" =>
                      /\ pc[r] = "done"
                      /\ result[r] = [k \in {FallbackKey(r)} |-> text_content[r]]
                /\ scan = "ok" => (pc[r] = "done" /\ result[r] = Parsed(span))

\* a text whose last '}' precedes its first '{' came back whole under
\* "raw_response"
C16_Witness ==
    \E r \in Runs :
        /\ Extracted1(r)
        /\ text_content[r].chars = <<"}", "w", "{">>
        /\ result[r] = [raw_response |-> text_content[r]]

\* the body of the first JSON-tagged fenced block of cs, <<>> when there is
\* none
JsonFenceBody(cs) ==
    LET opens == {i \in 1..Len(cs) : cs[i] = "fence-json"}
        first == CHOOSE i \in opens : \A j \in opens : i <= j
        closes == {j \in 1..Len(cs) : j > first /\ cs[j] = "fence"}
        close == CHOOSE j \in closes : \A k \in closes : j <= k
    IN  IF opens # {} /\ closes # {} THEN SubSeq(cs, first + 1, close - 1) ELSE <<>>

\* C19: when the text holds a JSON-tagged fenced block whose body is a JSON
\* object, the extraction returns the parse of that body, whatever braces
\* the prose outside the fence holds.
C19_FencePriority ==
    \A r \in Runs :
        LET body == JsonFenceBody(text_content[r].chars)
        IN  (/\ Extracted1(r)
             /\ JsonScan(body, 1, <<>>, FALSE) = "ok"
             /\ FirstToken(body) = "{") =>
                (pc[r] = "done" /\ result[r] = Parsed(BraceSpan(body)))

SuccessFields ==
    {"original_text", "translated_text", "document_analysis", "quality_review",
     "target_language"}

\* C17: every result a run returns is a failure, holding error and stage
\* and nothing else (no translated_text), the stage being one of the
\* pipeline's, or a success, holding original_text, translated_text,
\* document_analysis, quality_review and target_language and neither error
\* nor stage; a run that has not returned has no result.
C17_ResultShapes ==
    \A r \in Runs :
        IF pc[r] = "done"
        THEN \/ /\ DOMAIN result[r] = {"error", "stage"}
                /\ result[r].stage \in Range(StageOrder)
                /\ result[r].error \in ErrorMessages
             \/ DOMAIN result[r] = SuccessFields
        ELSE result[r] = Unset

\* a run failed in QualityReview on an empty translation: its result holds
\* error and stage and no text
C17_Witness ==
    \E r \in Runs :
        /\ pc[r] = "done"
        /\ DOMAIN result[r] = {"error", "stage"}
        /\ translation_result[r] # Unset
        /\ translation_result[r].translated_text.len = 0

\* everything run r owns
RunState(r) ==
    <<variant[r], quality_threshold[r], text_content[r], pc[r], invoked[r], calls[r],
      analysis_result[r], translation_result[r], quality_result[r],
      enhance_result[r], locals[r], result[r], exc[r]>>

\* the answers run r was given, in order
Answers(r) ==
    [i \in DOMAIN calls[r] |-> <<calls[r][i].kind, calls[r][i].ok, calls[r][i].text>>]

\* two runs of the same entry point on the same text that were given the
\* same answers and are as far along hold the same records and result
Deterministic ==
    \A r, q \in Runs :
        (/\ variant[r] = variant[q]
         /\ text_content[r] = text_content[q]
         /\ Len(invoked[r]) = Len(invoked[q])
         /\ Answers(r) = Answers(q)) => RunState(r) = RunState(q)

\* a step is a step of one run and leaves what the other runs own as it was
OneRunSteps ==
    \E r \in Runs : \A q \in Runs \ {r} : RunState(q)' = RunState(q)

\* C18: two runs on independent orchestrators share no mutable state: every
\* step of one leaves the state of the other unchanged, under every
\* interleaving, and what a run holds and returns is determined by its own
\* entry point, text and answers alone.
C18_Isolation == []Deterministic /\ [][OneRunSteps]_vars

\* two interleaved runs, one of each variant, both returned: one succeeded
\* after a correction and the other failed on its empty text in between
C18_Witness ==
    /\ Runs = {1, 2}
    /\ variant[1] # variant[2]
    /\ Succeeded(1) /\ Corrected(1)
    /\ pc[2] = "done" /\ HasError(result[2])

\* the text holds no JSON object from its first '{' to its last '}'
Unparseable(text) == JsonScan(BraceSpan(text.chars), 1, <<>>, FALSE) # "ok"

\* the fallback key of the analysis and of the review of run r
DegradedKey(r, kind) == IF variant[r] = "quebec" THEN "raw_response" ELSE kind

\* C20: when the answer of the analysis call cannot be parsed, Analyze
\* returns the fallback mapping as its analysis and the run goes on to
\* Translate; when the answer of the review call cannot be parsed,
\* QualityReview returns the fallback mapping as its review, gates it as
\* score 0 without suggested corrections, makes no correction call and
\* hands the Translate output unchanged to Enhance.
C20_DegradedContinues ==
    \A r \in Runs :
        /\ \A i \in CallsOf(r, "analysis") :
              (calls[r][i].ok /\ Unparseable(calls[r][i].text)) =>
                  /\ pc[r] # "raised" \/ Len(invoked[r]) > 1
                  /\ ReturnedClean(analysis_result[r])
                  /\ analysis_result[r].document_analysis
                         = [k \in {DegradedKey(r, "analysis")} |-> calls[r][i].text]
        /\ \A i \in CallsOf(r, "review") :
              (calls[r][i].ok /\ Unparseable(calls[r][i].text)) =>
                  /\ pc[r] # "raised" \/ Len(invoked[r]) > 3
                  /\ Gated(r)
                  /\ Review(r) = [k \in {DegradedKey(r, "review")} |-> calls[r][i].text]
                  /\ locals[r].overall_quality = JInt(0)
                  /\ ~Corrected(r)
                  /\ quality_result[r].translated_text
                         = translation_result[r].translated_text
                  /\ \A j \in CallsOf(r, "enhancement") :
                        calls[r][j].cur = translation_result[r].translated_text

\* C21: whatever analysis mapping Analyze hands over, Translate does not
\* raise a TypeError while it builds its prompt, and unless an exception of
\* the backend or of the extraction ends the stage the translation call is
\* made.
C21_TranslateDefensive ==
    \A r \in Runs :
        /\ Len(invoked[r]) = 2 => exc[r] # "TypeError"
        /\ (Len(invoked[r]) >= 2 /\ ~(pc[r] = "raised" /\ Len(invoked[r]) = 2)) =>
              "translation" \in Kinds(r)

\* C22: when the record Enhance returns carries an error marker, the run
\* returns a result whose error is set and whose stage names Enhance.
C22_EnhanceErrorHalts ==
    \A r \in Runs :
        HasError(enhance_result[r]) =>
            /\ pc[r] = "done"
            /\ HasError(result[r])
            /\ result[r].stage = "enhancement"

\* the translation call of run r was answered with the empty string
EmptyTranslation(r) ==
    /\ ReturnedClean(translation_result[r])
    /\ translation_result[r].translated_text.len = 0
    /\ \A i \in CallsOf(r, "translation") : calls[r][i].ok

\* C23: when the translation call returns the empty string, no exception
\* is raised and QualityReview, once invoked, makes no generation call; the
\* run returns {error, stage: "quality_check"} and Enhance is not invoked.
C23_EmptyTranslationRejected ==
    \A r \in Runs :
        EmptyTranslation(r) =>
            /\ pc[r] # "raised"
            /\ Len(invoked[r]) >= 3 =>
                  /\ pc[r] = "done"
                  /\ result[r] = [error |-> "Missing original or translated text",
                                  stage |-> "quality_check"]
                  /\ invoked[r] = SubSeq(StageOrder, 1, 3)
                  /\ Kinds(r) \cap {"review", "correction", "enhancement"} = {}

\* a run whose translation call answered the empty string was rejected by
\* QualityReview
C23_Witness ==
    \E r \in Runs :
        /\ EmptyTranslation(r)
        /\ Len(invoked[r]) = 3
        /\ calls[r][Len(calls[r])].kind = "translation"
        /\ calls[r][Len(calls[r])].text.len = 0
        /\ result[r].stage = "quality_check"

\* C24: whatever value the review puts in overall_quality, QualityReview
\* does not raise a TypeError while it evaluates the gate, and the score the
\* gate compares is an integer.
C24_CoercionTotal ==
    \A r \in Runs :
        Len(invoked[r]) = 3 =>
            /\ exc[r] # "TypeError"
            /\ locals[r] # Unset => locals[r].overall_quality.t = "int"

\* C25: the analysis prompt embeds the first AnalysisLimit characters of
\* the input at most; the prompts of Translate, of the correction and of
\* Enhance, the review prompt of a short original, the original text kept
\* in the records handed from stage to stage and the original_text of a
\* success result are the whole input.
C25_OriginalPreserved ==
    \A r \in Runs :
        LET n == text_content[r].len
        IN  /\ \A i \in DOMAIN calls[r] :
                   LET c == calls[r][i]
                   IN  /\ c.kind = "analysis" =>
                              c.orig = <<[lo |-> 0, hi |-> Min(n, AnalysisLimit)]>>
                       /\ c.kind \in {"translation", "correction", "enhancement"} =>
                              c.orig = Full(n)
                       /\ (c.kind = "review" /\ c.mode = "full") => c.orig = Full(n)
            /\ ReturnedClean(analysis_result[r]) =>
                   analysis_result[r].text_content = text_content[r]
            /\ ReturnedClean(translation_result[r]) =>
                   translation_result[r].original_text = text_content[r]
            /\ (ReturnedClean(quality_result[r])
                    /\ "original_text" \in DOMAIN quality_result[r]) =>
                   quality_result[r].original_text = text_content[r]
            /\ Succeeded(r) => result[r].original_text = text_content[r]

\* a run on a text longer than the analysis limit succeeded after a
\* correction
C25_Witness ==
    \E r \in Runs :
        /\ text_content[r].len > AnalysisLimit
        /\ Succeeded(r)
        /\ "correction" \in Kinds(r)
        /\ \E i \in CallsOf(r, "analysis") : SliceLen(calls[r][i].orig[1]) = AnalysisLimit

CallKinds ==
    {"analysis", "glossary", "translation", "review", "correction", "enhancement"}

\* the calls of run r issued by the stage named s
CallsOfStage(r, s) == {i \in DOMAIN calls[r] : StageOf(calls[r][i].kind) = s}

\* C26: each stage issues at most one generation call, QualityReview at
\* most two, and a run makes at most five generation calls.
C26_AtMostFive ==
    \A r \in Runs :
        /\ \A s \in Range(StageOrder) :
               Cardinality(CallsOfStage(r, s)) <= IF s = "quality_check" THEN 2 ELSE 1
        /\ Len(calls[r]) <= 5

\* C26 (amended): no call is issued twice: a run makes at most one call of
\* each kind, the glossary call in the Quebec-French variant only; a generic
\* run makes at most five calls, a Quebec-French run at most six.
C26_NoRepeat ==
    \A r \in Runs :
        /\ \A k \in CallKinds : Cardinality(CallsOf(r, k)) <= 1
        /\ Kinds(r) \subseteq CallKinds
        /\ "glossary" \in Kinds(r) => variant[r] = "quebec"
        /\ Len(calls[r]) <= IF variant[r] = "quebec" THEN 6 ELSE 5

\* a Quebec-French run made its six calls, a glossary call among them
C26_Witness ==
    \E r \in Runs :
        /\ variant[r] = "quebec"
        /\ Len(calls[r]) = 6
        /\ Cardinality(CallsOfStage(r, "translation")) = 2
        /\ pc[r] = "done"

\* the score the Quebec-French gate reads under key k of the mapping d
QuebecScore(d, k) == CoerceScore(Get(d, k, JInt(0)))

\* both scores of the mapping d are numbers once coerced
NumericScores(d) ==
    /\ QuebecScore(d, "overall_quality").t \in {"int", "float"}
    /\ QuebecScore(d, "quebec_french_authenticity").t \in {"int", "float"}

\* d holds suggested_corrections and one of its scores is below its floor
ShouldCorrect(d) ==
    /\ "suggested_corrections" \in DOMAIN d
    /\ \/ PyLess(QuebecScore(d, "overall_quality"), QualityFloor).value
       \/ PyLess(QuebecScore(d, "quebec_french_authenticity"), AuthenticityFloor).value

\* the review calls of run r that were answered, the answer not nested
\* beyond the recursion limit
AnsweredReviews(r) ==
    {i \in CallsOf(r, "review") :
        /\ calls[r][i].ok
        /\ \A j \in DOMAIN calls[r][i].text.chars : calls[r][i].text.chars[j] # "{*"}

\* C27: in the Quebec-French variant, once the review is answered, the
\* correction call is issued exactly when the review mapping holds the key
\* suggested_corrections and a coerced score is below its floor (7, 8); in
\* every other case the quality check returns the Translate output unchanged.
C27_QuebecGate ==
    \A r \in Runs :
        \A i \in AnsweredReviews(r) :
            LET d == extract_json(calls[r][i].text).value
            IN  variant[r] = "quebec" =>
                    /\ NumericScores(d) =>
                           ("correction" \in Kinds(r) <=> ShouldCorrect(d))
                    /\ "correction" \notin Kinds(r) =>
                           /\ ReturnedClean(quality_result[r])
                           /\ quality_result[r].translated_text =
                                  translation_result[r].translated_text

\* C28: Translate is invoked only on a text it accepts, so it returns no
\* error record, and every error result carries the stage
\* "document_analysis" or "quality_check", never "translation".
C28_NoTranslationStage ==
    \A r \in Runs :
        /\ Len(invoked[r]) >= 2 => text_content[r].len > 0
        /\ ~HasError(translation_result[r])
        /\ (pc[r] = "done" /\ HasError(result[r])) =>
               result[r].stage \in {"document_analysis", "quality_check"}

\* Translate returned its record and the run ended with an error result
C28_Witness ==
    \E r \in Runs :
        /\ Len(invoked[r]) >= 2
        /\ ReturnedClean(translation_result[r])
        /\ pc[r] = "done"
        /\ HasError(result[r])
        /\ result[r].stage # "document_analysis"

\* C29: in a sampled review prompt each sample of the translation is a
\* contiguous piece of it of at most 1000 characters, and the middle sample
\* is the window from max(0, n/2 - 500) to min(n, n/2 + 500), n the length
\* of the translation.
C29_MiddleWindow ==
    \A r \in Runs : \A i \in CallsOf(r, "review") :
        LET c == calls[r][i]
            n == c.cur.len
        IN  c.mode = "samples" =>
                /\ Len(c.trans) = 3
                /\ \A j \in 1..3 :
                       /\ 0 <= c.trans[j].lo /\ c.trans[j].lo <= c.trans[j].hi
                       /\ c.trans[j].hi <= n
                       /\ SliceLen(c.trans[j]) <= SampleLen
                /\ c.trans[2] = [lo |-> Max(0, (n \div 2) - HalfWindow),
                                 hi |-> Min(n, (n \div 2) + HalfWindow)]

\* what run r did and returned, its quality_threshold left out
Outcome(r) ==
    <<pc[r], invoked[r], calls[r], analysis_result[r], translation_result[r],
      quality_result[r], enhance_result[r], locals[r], result[r], exc[r]>>

\* C30: two runs of process_document_for_quebec_french on the same text
\* that are given the same answers and are as far along have issued the same
\* calls and hold the same records and result whatever their
\* quality_threshold values, and the gate compares numeric scores against 7
\* and 8.
C30_ThresholdIgnored ==
    /\ \A r, q \in Runs :
           (/\ variant[r] = "quebec" /\ variant[q] = "quebec"
            /\ text_content[r] = text_content[q]
            /\ Len(invoked[r]) = Len(invoked[q])
            /\ Answers(r) = Answers(q)) => Outcome(r) = Outcome(q)
    /\ \A r \in Runs : \A i \in AnsweredReviews(r) :
           LET d == extract_json(calls[r][i].text).value
           IN  (variant[r] = "quebec" /\ NumericScores(d)) =>
                   ("correction" \in Kinds(r) <=> ShouldCorrect(d))

\* two runs with different thresholds, one above and one below the score
\* the review gave, were given the same answers and both succeeded without
\* a correction
C30_Witness ==
    \E r, q \in Runs :
        /\ quality_threshold[r] < QualityFloor + 1
        /\ quality_threshold[q] > QualityFloor + 1
        /\ Answers(r) = Answers(q)
        /\ Succeeded(r) /\ Succeeded(q)
        /\ locals[r].overall_quality = JInt(QualityFloor + 1)
        /\ "correction" \notin Kinds(r)
        /\ result[r] = result[q]

=============================================================================
